---- MODULE Spec2Model ----
(***************************************************************************)
(* Garage door controller (src/unnamed/part_001, the setState /            *)
(* movingStatus version).                                                  *)
(*                                                                         *)
(* Three kinds of goroutine share the GarageController struct without any  *)
(* lock: the main goroutine (main -> NewGarageController -> Run), the MQTT *)
(* client's router goroutine that calls the default publish handler (one   *)
(* message at a time), and one timer goroutine per accepted request.  Each *)
(* action below is one access to the shared fields, so every interleaving  *)
(* of the unsynchronised reads and writes is a behaviour of the model.     *)
(***************************************************************************)
EXTENDS Naturals, Sequences, FiniteSets

\* ---------------------------------------------------------------- bounds
MaxMessages == 2      \* control messages the broker delivers
MaxFlips == 1         \* changes of the door-position sensor level
MaxOpenRequests == 2  \* "O" messages of the open-request scenario
SetStateCalls == 2    \* successive setState calls of the sequential driver

\* ---------------------------------------------------------------- values
DoorOpen == "Open"
DoorClosed == "Closed"
DoorOpening == "Opening"
DoorClosing == "Closing"
DoorUnknown == "Unknown"
DoorState == {DoorOpen, DoorClosed, DoorOpening, DoorClosing, DoorUnknown}

High == "High"
Low == "Low"

MQTTTopicControl == "control"
OtherTopic == "other"
Topics == {MQTTTopicControl, OtherTopic}
Payloads == {"O", "C", "X"}

Main == "main"
Handler == "handler"
Test == "test"
Poller == "poller"
Procs == {Main, Handler, Test, Poller}

MQTTTopicStatus == "status"
MQTTTopicPresence == "presence"
NoPublish == [topic |-> "none", retained |-> FALSE, payload |-> "none"]
NoMsg == [topic |-> "none", payload |-> "none"]

VARIABLES
    pc,                \* position of each goroutine
    ret,               \* where each goroutine continues after setState
    newState,          \* setState's argument / readState's result, per goroutine
    swState,           \* the value setState's switch read, per goroutine
    currentDoorState,  \* controller.currentDoorState
    movingStatus,      \* controller.movingStatus
    pinStatus,         \* level of the door-position sensor pin
    pinControl,        \* level of the actuator pin
    sleeping,          \* timer goroutines still in time.Sleep
    ready,             \* timer goroutines blocked in the send on movingStatusChannel
    published,         \* messages published on the status topic, in order
    presence,          \* messages published on the presence topic, in order
    lastPublish,       \* arguments of the latest client.Publish call
    subscribed,        \* the control topic is subscribed
    pulses,            \* rising edges written to the actuator pin
    accepted,          \* OpenDoor/CloseDoor calls that passed their state check
    spawned,           \* timer goroutines started
    delivered,         \* messages handed to the default publish handler
    flips,             \* sensor level changes so far
    msg,               \* the message the handler was called with and has not yet dispatched
    settling,          \* a completion signal was consumed and currentDoorState has not changed since
    testArg,           \* the state the sequential driver passes to setState
    testCalls          \* setState calls the sequential driver has completed

vars == <<pc, ret, newState, swState, currentDoorState, movingStatus, pinStatus,
          pinControl, sleeping, ready, published, presence, lastPublish, subscribed, pulses,
          accepted, spawned, delivered, flips, msg, settling, testArg, testCalls>>

\* Everything but the goroutines' own positions and locals and the two shared fields.
world == <<pinStatus, pinControl, sleeping, ready, published, presence, lastPublish, subscribed,
           pulses, accepted, spawned, delivered, flips, msg, testArg, testCalls>>

Goto(self, where) == pc' = [pc EXCEPT ![self] = where]

\* Fatalf / panic end the whole process: no goroutine runs afterwards.
Alive == pc[Main] # "exited"

\* ---------------------------------------------------------------- startup
\* main: rpio.Open
RpioOpen ==
    /\ pc[Main] = "rpio_open"
    /\ Goto(Main, "load_config")
    /\ UNCHANGED <<ret, newState, swState, currentDoorState, movingStatus, settling, world>>

RpioOpenFails ==
    /\ pc[Main] = "rpio_open"
    /\ Goto(Main, "exited")
    /\ UNCHANGED <<ret, newState, swState, currentDoorState, movingStatus, settling, world>>

\* main: toml.DecodeFile
LoadConfig ==
    /\ pc[Main] = "load_config"
    /\ Goto(Main, "connect")
    /\ UNCHANGED <<ret, newState, swState, currentDoorState, movingStatus, settling, world>>

LoadConfigFails ==
    /\ pc[Main] = "load_config"
    /\ Goto(Main, "exited")
    /\ UNCHANGED <<ret, newState, swState, currentDoorState, movingStatus, settling, world>>

\* NewGarageController: client.Connect
Connect ==
    /\ pc[Main] = "connect"
    /\ Goto(Main, "presence")
    /\ UNCHANGED <<ret, newState, swState, currentDoorState, movingStatus, settling, world>>

ConnectFails ==
    /\ pc[Main] = "connect"
    /\ Goto(Main, "exited")
    /\ UNCHANGED <<ret, newState, swState, currentDoorState, movingStatus, settling, world>>

\* NewGarageController: client.Publish(presence topic, "GBP-ONLINE")
PublishPresence ==
    /\ pc[Main] = "presence"
    /\ presence' = Append(presence, "GBP-ONLINE")
    /\ lastPublish' = [topic |-> MQTTTopicPresence, retained |-> FALSE,
                       payload |-> "GBP-ONLINE"]
    /\ Goto(Main, "subscribe")
    /\ UNCHANGED <<ret, newState, swState, currentDoorState, movingStatus, settling,
                   pinStatus, pinControl, sleeping, ready, published, subscribed,
                   pulses, accepted, spawned, delivered, flips, msg, testArg, testCalls>>

PublishPresenceFails ==
    /\ pc[Main] = "presence"
    /\ Goto(Main, "exited")
    /\ UNCHANGED <<ret, newState, swState, currentDoorState, movingStatus, settling, world>>

\* NewGarageController: client.Subscribe(control topic); then line 117 calls
\* readState and hands its result to setState, which returns into Run.
Subscribe ==
    /\ pc[Main] = "subscribe"
    /\ subscribed' = TRUE
    /\ Goto(Main, "rs_moving")
    /\ ret' = [ret EXCEPT ![Main] = "run_if"]
    /\ UNCHANGED <<newState, swState, currentDoorState, movingStatus, settling,
                   pinStatus, pinControl, sleeping, ready, published, presence, lastPublish,
                   pulses, accepted, spawned, delivered, flips, msg, testArg, testCalls>>

\* Mutant: a failed Subscribe is logged and construction goes on.
SubscribeFailsContinues ==
    /\ pc[Main] = "subscribe"
    /\ Goto(Main, "rs_moving")
    /\ ret' = [ret EXCEPT ![Main] = "run_if"]
    /\ UNCHANGED <<newState, swState, currentDoorState, movingStatus, settling, world>>

SubscribeFails ==
    /\ pc[Main] = "subscribe"
    /\ Goto(Main, "exited")
    /\ UNCHANGED <<ret, newState, swState, currentDoorState, movingStatus, settling, world>>


\* ---------------------------------------------------------------- readState
\* rpio.ReadPin(pinStatus) == rpio.High means open
SensorState(level) == IF level = High THEN DoorOpen ELSE DoorClosed

\* line 124: if controller.movingStatus
ReadStateIfMoving ==
    /\ Alive
    /\ pc[Main] = "rs_moving"
    /\ Goto(Main, IF movingStatus THEN "rs_cur" ELSE "rs_pin")
    /\ UNCHANGED <<ret, newState, swState, currentDoorState, movingStatus, settling, world>>

\* Mutant: readState answering Unknown for a moving door.
ReadStateUnknownWhileMoving ==
    /\ Alive
    /\ pc[Main] = "rs_cur"
    /\ newState' = [newState EXCEPT ![Main] = DoorUnknown]
    /\ Goto(Main, "set_check")
    /\ UNCHANGED <<ret, swState, currentDoorState, movingStatus, settling, world>>

\* line 125: return controller.currentDoorState
ReadStateCurrent ==
    /\ Alive
    /\ pc[Main] = "rs_cur"
    /\ newState' = [newState EXCEPT ![Main] = currentDoorState]
    /\ Goto(Main, "set_check")
    /\ UNCHANGED <<ret, swState, currentDoorState, movingStatus, settling, world>>

\* lines 128-132: read the sensor pin
ReadStatePin ==
    /\ Alive
    /\ pc[Main] = "rs_pin"
    /\ newState' = [newState EXCEPT ![Main] = SensorState(pinStatus)]
    /\ Goto(Main, "set_check")
    /\ UNCHANGED <<ret, swState, currentDoorState, movingStatus, settling, world>>

\* ---------------------------------------------------------------- setState
\* Mutant: setState without its early return.
SetStateNeverSkips(current, new) == FALSE

\* line 136: the early return
SetStateSkips(current, new) == current = new

\* lines 141-150: the status code of a state; Unknown has no case
HasStatusCode(state) == state \in {DoorOpen, DoorClosed, DoorOpening, DoorClosing}

StatusCode(state) ==
    CASE state = DoorOpen -> "O"
      [] state = DoorClosed -> "C"
      [] state = DoorOpening -> "U"
      [] state = DoorClosing -> "D"

\* lines 143-149: the arguments of setState's client.Publish, retained = true
StatusMessage(state) ==
    [topic |-> MQTTTopicStatus, retained |-> TRUE, payload |-> StatusCode(state)]

\* setState returns: its frame (argument, switch value, return address) is gone.
Return(self) ==
    /\ ret' = [ret EXCEPT ![self] = "none"]
    /\ newState' = [newState EXCEPT ![self] = DoorUnknown]
    /\ swState' = [swState EXCEPT ![self] = DoorUnknown]

\* line 136
SetStateCheck(self) ==
    /\ Alive
    /\ pc[self] = "set_check"
    /\ IF SetStateSkips(currentDoorState, newState[self])
       THEN Goto(self, ret[self]) /\ Return(self)
       ELSE Goto(self, "set_write") /\ UNCHANGED <<ret, newState, swState>>
    /\ UNCHANGED <<currentDoorState, movingStatus, settling, world>>

\* line 140
SetStateWrite(self) ==
    /\ Alive
    /\ pc[self] = "set_write"
    /\ currentDoorState' = newState[self]
    /\ settling' = (settling /\ currentDoorState' = currentDoorState)
    /\ Goto(self, "set_switch")
    /\ UNCHANGED <<ret, newState, swState, movingStatus, world>>

\* line 141: the switch reads the field again, not the argument
SetStateSwitch(self) ==
    /\ Alive
    /\ pc[self] = "set_switch"
    /\ swState' = [swState EXCEPT ![self] = currentDoorState]
    /\ Goto(self, "set_publish")
    /\ UNCHANGED <<ret, newState, currentDoorState, movingStatus, settling, world>>

\* lines 142-149: client.Publish(status topic, 0, true, code)
SetStatePublish(self) ==
    /\ Alive
    /\ pc[self] = "set_publish"
    /\ IF HasStatusCode(swState[self])
       THEN /\ published' = Append(published, StatusCode(swState[self]))
            /\ lastPublish' = StatusMessage(swState[self])
       ELSE UNCHANGED <<published, lastPublish>>
    /\ Goto(self, ret[self])
    /\ Return(self)
    /\ UNCHANGED <<currentDoorState, movingStatus, settling,
                   pinStatus, pinControl, sleeping, ready, presence, subscribed,
                   pulses, accepted, spawned, delivered, flips, msg, testArg, testCalls>>

\* ---------------------------------------------------------------- Run
\* line 197: if !controller.movingStatus { setState(readState()) }
RunIfNotMoving ==
    /\ Alive
    /\ pc[Main] = "run_if"
    /\ IF movingStatus
       THEN Goto(Main, "select") /\ UNCHANGED ret
       ELSE Goto(Main, "rs_moving") /\ ret' = [ret EXCEPT ![Main] = "select"]
    /\ UNCHANGED <<newState, swState, currentDoorState, movingStatus, settling, world>>

\* line 202: a timer goroutine is blocked in its send; receive from it
SelectReceive ==
    /\ Alive
    /\ pc[Main] = "select"
    /\ ready > 0
    /\ ready' = ready - 1
    /\ settling' = TRUE
    /\ Goto(Main, "assign_moving")
    /\ UNCHANGED <<ret, newState, swState, currentDoorState, movingStatus,
                   pinStatus, pinControl, sleeping, published, presence, lastPublish, subscribed,
                   pulses, accepted, spawned, delivered, flips, msg, testArg, testCalls>>

\* lines 204-205: nothing to receive; sleep and loop
SelectDefault ==
    /\ Alive
    /\ pc[Main] = "select"
    /\ ready = 0
    /\ Goto(Main, "run_if")
    /\ UNCHANGED <<ret, newState, swState, currentDoorState, movingStatus, settling, world>>

\* Mutant: the received value is dropped instead of assigned at line 203.
AssignMovingDiscards ==
    /\ Alive
    /\ pc[Main] = "assign_moving"
    /\ Goto(Main, "run_if")
    /\ UNCHANGED <<ret, newState, swState, currentDoorState, movingStatus, settling, world>>

\* line 203: controller.movingStatus = moving (every timer sends false)
AssignMoving ==
    /\ Alive
    /\ pc[Main] = "assign_moving"
    /\ movingStatus' = FALSE
    /\ Goto(Main, "run_if")
    /\ UNCHANGED <<ret, newState, swState, currentDoorState, settling, world>>


\* ---------------------------------------------------------------- default publish handler
\* Mutant: the handler without the movingStatus test of line 94.
HandlerDispatchIgnoresMoving(topic, payload, moving) ==
    IF topic = MQTTTopicControl
    THEN CASE payload = "O" -> "open_check"
           [] payload = "C" -> "close_check"
           [] OTHER -> "idle"
    ELSE "idle"

\* Mutant: the handler without the topic test of line 94.
HandlerDispatchAnyTopic(topic, payload, moving) ==
    IF ~moving
    THEN CASE payload = "O" -> "open_check"
           [] payload = "C" -> "close_check"
           [] OTHER -> "idle"
    ELSE "idle"

\* lines 94-100: where the handler goes for a message, given movingStatus as read
HandlerDispatch(topic, payload, moving) ==
    IF topic = MQTTTopicControl /\ ~moving
    THEN CASE payload = "O" -> "open_check"
           [] payload = "C" -> "close_check"
           [] OTHER -> "idle"
    ELSE "idle"

\* The router goroutine calls the handler with the next inbound message.
Deliver ==
    /\ Alive
    /\ subscribed
    /\ pc[Handler] = "idle"
    /\ delivered < MaxMessages
    /\ \E topic \in Topics, payload \in Payloads :
          msg' = [topic |-> topic, payload |-> payload]
    /\ delivered' = delivered + 1
    /\ Goto(Handler, "dispatch")
    /\ UNCHANGED <<ret, newState, swState, currentDoorState, movingStatus, settling,
                   pinStatus, pinControl, sleeping, ready, published, presence, lastPublish,
                   subscribed, pulses, accepted, spawned, flips, testArg, testCalls>>

\* lines 94-100: the topic and movingStatus test, and the switch on the payload
Dispatch ==
    /\ Alive
    /\ pc[Handler] = "dispatch"
    /\ Goto(Handler, HandlerDispatch(msg.topic, msg.payload, movingStatus))
    /\ msg' = NoMsg
    /\ UNCHANGED <<ret, newState, swState, currentDoorState, movingStatus, settling,
                   pinStatus, pinControl, sleeping, ready, published, presence, lastPublish,
                   subscribed, pulses, accepted, spawned, delivered, flips, testArg, testCalls>>

\* Mutant: OpenDoor refusing only a door that is moving.
OpenDoorAcceptsUnlessMoving(state) == state \notin {DoorOpening, DoorClosing}

\* Mutant: CloseDoor refusing only a door that is already closed.
CloseDoorAcceptsUnlessClosed(state) == state # DoorClosed

\* line 162 / line 177: the state a request needs
OpenDoorAccepts(state) == state = DoorClosed

CloseDoorAccepts(state) == state = DoorOpen

\* line 162
OpenDoorCheck ==
    /\ Alive
    /\ pc[Handler] = "open_check"
    /\ IF OpenDoorAccepts(currentDoorState)
       THEN Goto(Handler, "open_moving") /\ accepted' = accepted + 1
       ELSE Goto(Handler, "idle") /\ UNCHANGED accepted
    /\ UNCHANGED <<ret, newState, swState, currentDoorState, movingStatus, settling,
                   pinStatus, pinControl, sleeping, ready, published, presence, lastPublish,
                   subscribed, pulses, spawned, delivered, flips, msg, testArg, testCalls>>

\* Mutant: OpenDoor without line 166.
OpenDoorForgetsMoving ==
    /\ Alive
    /\ pc[Handler] = "open_moving"
    /\ newState' = [newState EXCEPT ![Handler] = DoorOpening]
    /\ ret' = [ret EXCEPT ![Handler] = "toggle_high"]
    /\ Goto(Handler, "set_check")
    /\ UNCHANGED <<swState, currentDoorState, movingStatus, settling, world>>

\* lines 166-167: movingStatus = true; setState(DoorOpening)
OpenDoorSetMoving ==
    /\ Alive
    /\ pc[Handler] = "open_moving"
    /\ movingStatus' = TRUE
    /\ newState' = [newState EXCEPT ![Handler] = DoorOpening]
    /\ ret' = [ret EXCEPT ![Handler] = "toggle_high"]
    /\ Goto(Handler, "set_check")
    /\ UNCHANGED <<swState, currentDoorState, settling, world>>

\* line 177
CloseDoorCheck ==
    /\ Alive
    /\ pc[Handler] = "close_check"
    /\ IF CloseDoorAccepts(currentDoorState)
       THEN Goto(Handler, "close_moving") /\ accepted' = accepted + 1
       ELSE Goto(Handler, "idle") /\ UNCHANGED accepted
    /\ UNCHANGED <<ret, newState, swState, currentDoorState, movingStatus, settling,
                   pinStatus, pinControl, sleeping, ready, published, presence, lastPublish,
                   subscribed, pulses, spawned, delivered, flips, msg, testArg, testCalls>>

\* lines 181-182: movingStatus = true; setState(DoorClosing)
CloseDoorSetMoving ==
    /\ Alive
    /\ pc[Handler] = "close_moving"
    /\ movingStatus' = TRUE
    /\ newState' = [newState EXCEPT ![Handler] = DoorClosing]
    /\ ret' = [ret EXCEPT ![Handler] = "toggle_high"]
    /\ Goto(Handler, "set_check")
    /\ UNCHANGED <<swState, currentDoorState, settling, world>>

\* toggleDoor, line 155: rpio.WritePin(pinControl, High)
ToggleDoorHigh ==
    /\ Alive
    /\ pc[Handler] = "toggle_high"
    /\ pinControl' = High
    /\ pulses' = IF pinControl = Low THEN pulses + 1 ELSE pulses
    /\ Goto(Handler, "toggle_low")
    /\ UNCHANGED <<ret, newState, swState, currentDoorState, movingStatus, settling,
                   pinStatus, sleeping, ready, published, presence, lastPublish, subscribed,
                   accepted, spawned, delivered, flips, msg, testArg, testCalls>>

\* toggleDoor, lines 156-157: sleep 250 ms, rpio.WritePin(pinControl, Low)
ToggleDoorLow ==
    /\ Alive
    /\ pc[Handler] = "toggle_low"
    /\ pinControl' = Low
    /\ Goto(Handler, "spawn")
    /\ UNCHANGED <<ret, newState, swState, currentDoorState, movingStatus, settling,
                   pinStatus, sleeping, ready, published, presence, lastPublish, subscribed,
                   pulses, accepted, spawned, delivered, flips, msg, testArg, testCalls>>

\* lines 169-172 / 184-187: go func(ch) { sleep; ch <- false }
SpawnTimer ==
    /\ Alive
    /\ pc[Handler] = "spawn"
    /\ sleeping' = sleeping + 1
    /\ spawned' = spawned + 1
    /\ Goto(Handler, "idle")
    /\ UNCHANGED <<ret, newState, swState, currentDoorState, movingStatus, settling,
                   pinStatus, pinControl, ready, published, presence, lastPublish, subscribed,
                   pulses, accepted, delivered, flips, msg, testArg, testCalls>>

\* ---------------------------------------------------------------- timer goroutine
\* line 170-171: the travel delay is over; the goroutine blocks in ch <- false
TimerElapses ==
    /\ Alive
    /\ sleeping > 0
    /\ sleeping' = sleeping - 1
    /\ ready' = ready + 1
    /\ UNCHANGED <<pc, ret, newState, swState, currentDoorState, movingStatus, settling,
                   pinStatus, pinControl, published, presence, lastPublish, subscribed,
                   pulses, accepted, spawned, delivered, flips, msg, testArg, testCalls>>

\* ---------------------------------------------------------------- environment
\* The door reaches or leaves the sensor: the level at pinStatus changes.
SensorFlip ==
    /\ Alive
    /\ flips < MaxFlips
    /\ pinStatus' = IF pinStatus = High THEN Low ELSE High
    /\ flips' = flips + 1
    /\ UNCHANGED <<pc, ret, newState, swState, currentDoorState, movingStatus, settling,
                   pinControl, sleeping, ready, published, presence, lastPublish, subscribed,
                   pulses, accepted, spawned, delivered, msg, testArg, testCalls>>

\* ---------------------------------------------------------------- the program
\* lines 75-84: the struct as constructed; main is about to call rpio.Open
Init ==
    /\ pc = [p \in Procs |-> CASE p = Main -> "rpio_open"
                               [] p = Handler -> "idle"
                               [] OTHER -> "off"]
    /\ ret = [p \in Procs |-> "none"]
    /\ newState = [p \in Procs |-> DoorUnknown]
    /\ swState = [p \in Procs |-> DoorUnknown]
    /\ currentDoorState = DoorUnknown
    /\ movingStatus = FALSE
    /\ pinStatus \in {Low, High}
    /\ pinControl = Low
    /\ sleeping = 0
    /\ ready = 0
    /\ published = <<>>
    /\ presence = <<>>
    /\ lastPublish = NoPublish
    /\ subscribed = FALSE
    /\ pulses = 0
    /\ accepted = 0
    /\ spawned = 0
    /\ delivered = 0
    /\ flips = 0
    /\ msg = NoMsg
    /\ settling = FALSE
    /\ testArg = DoorUnknown
    /\ testCalls = 0

\* The main goroutine: startup, readState, setState, Run.
MainSteps ==
    \/ RpioOpen \/ RpioOpenFails
    \/ LoadConfig \/ LoadConfigFails
    \/ Connect \/ ConnectFails
    \/ PublishPresence \/ PublishPresenceFails
    \/ Subscribe \/ SubscribeFails
    \/ ReadStateIfMoving \/ ReadStateCurrent \/ ReadStatePin
    \/ SetStateCheck(Main) \/ SetStateWrite(Main)
    \/ SetStateSwitch(Main) \/ SetStatePublish(Main)
    \/ RunIfNotMoving \/ SelectReceive \/ SelectDefault \/ AssignMoving

\* The handler goroutine, but for the two steps that are CloseDoor's alone.
HandlerOpenSteps ==
    \/ Dispatch
    \/ OpenDoorCheck \/ OpenDoorSetMoving
    \/ SetStateCheck(Handler) \/ SetStateWrite(Handler)
    \/ SetStateSwitch(Handler) \/ SetStatePublish(Handler)
    \/ ToggleDoorHigh \/ ToggleDoorLow \/ SpawnTimer

HandlerCloseSteps == CloseDoorCheck \/ CloseDoorSetMoving

\* Every step of the process itself: main, the handler, the timers.
Program == MainSteps \/ HandlerOpenSteps \/ HandlerCloseSteps \/ TimerElapses

\* The process with any messages and any sensor behaviour.
Next == Program \/ Deliver \/ SensorFlip

Spec == Init /\ [][Next]_vars

\* ---------------------------------------------------------------- open-request scenario
\* NewGarageController has returned: main is inside Run.
Constructed ==
    \/ pc[Main] \in {"run_if", "select", "assign_moving"}
    \/ pc[Main] \in {"rs_moving", "rs_cur", "rs_pin", "set_check", "set_write",
                     "set_switch", "set_publish"} /\ ret[Main] = "select"

\* An "O" control message arrives once the controller is constructed.
DeliverOpen ==
    /\ Alive
    /\ subscribed
    /\ Constructed
    /\ pc[Handler] = "idle"
    /\ delivered < MaxOpenRequests
    /\ msg' = [topic |-> MQTTTopicControl, payload |-> "O"]
    /\ delivered' = delivered + 1
    /\ Goto(Handler, "dispatch")
    /\ UNCHANGED <<ret, newState, swState, currentDoorState, movingStatus, settling,
                   pinStatus, pinControl, sleeping, ready, published, presence, lastPublish,
                   subscribed, pulses, accepted, spawned, flips, testArg, testCalls>>

\* The pulsed door travels and reaches the open position: the sensor goes High.
DoorOpens ==
    /\ Alive
    /\ pulses > 0
    /\ pinStatus = Low
    /\ pinStatus' = High
    /\ flips' = flips + 1
    /\ UNCHANGED <<pc, ret, newState, swState, currentDoorState, movingStatus, settling,
                   pinControl, sleeping, ready, published, presence, lastPublish, subscribed,
                   pulses, accepted, spawned, delivered, msg, testArg, testCalls>>

InitScenario == Init /\ pinStatus = Low

\* The travel delay is long enough: the door is open when the timer's sleep ends.
TravelDelayElapses == pinStatus = High /\ TimerElapses

\* Only "O" arrives, so CloseDoor is never called.
NextScenario ==
    MainSteps \/ HandlerOpenSteps \/ TravelDelayElapses \/ DeliverOpen \/ DoorOpens

SpecScenario == InitScenario /\ [][NextScenario]_vars

\* ---------------------------------------------------------------- setState, called sequentially
\* The driver calls setState(v) again with the same v, SetStateCalls times in all.
TestNext ==
    /\ pc[Test] = "returned"
    /\ testCalls' = testCalls + 1
    /\ IF testCalls + 1 < SetStateCalls
       THEN /\ Goto(Test, "set_check")
            /\ ret' = [ret EXCEPT ![Test] = "returned"]
            /\ newState' = [newState EXCEPT ![Test] = testArg]
       ELSE /\ Goto(Test, "done")
            /\ UNCHANGED <<ret, newState>>
    /\ UNCHANGED <<swState, currentDoorState, movingStatus, settling,
                   pinStatus, pinControl, sleeping, ready, published, presence, lastPublish,
                   subscribed, pulses, accepted, spawned, delivered, flips, msg, testArg>>

\* Any field values, and the first call setState(testArg) about to run.
InitSetState ==
    /\ pc = [p \in Procs |-> IF p = Test THEN "set_check" ELSE "off"]
    /\ testArg \in DoorState
    /\ ret = [p \in Procs |-> IF p = Test THEN "returned" ELSE "none"]
    /\ newState = [p \in Procs |-> IF p = Test THEN testArg ELSE DoorUnknown]
    /\ swState = [p \in Procs |-> DoorUnknown]
    /\ currentDoorState \in DoorState
    /\ movingStatus \in BOOLEAN
    /\ pinStatus \in {Low, High}
    /\ pinControl = Low
    /\ sleeping = 0
    /\ ready = 0
    /\ published = <<>>
    /\ presence = <<>>
    /\ lastPublish = NoPublish
    /\ subscribed = TRUE
    /\ pulses = 0
    /\ accepted = 0
    /\ spawned = 0
    /\ delivered = 0
    /\ flips = 0
    /\ msg = NoMsg
    /\ settling = FALSE
    /\ testCalls = 0

NextSetState ==
    \/ SetStateCheck(Test) \/ SetStateWrite(Test)
    \/ SetStateSwitch(Test) \/ SetStatePublish(Test)
    \/ TestNext

SpecSetState == InitSetState /\ [][NextSetState]_vars

\* ---------------------------------------------------------------- properties
InSetState(p) == pc[p] \in {"set_check", "set_write", "set_switch", "set_publish"}

\* The handler is inside an accepted OpenDoor/CloseDoor call, before toggleDoor.
BeforeToggle ==
    \/ pc[Handler] \in {"open_moving", "close_moving", "toggle_high"}
    \/ InSetState(Handler)

\* The handler is inside an accepted OpenDoor/CloseDoor call, before the go statement.
BeforeSpawn == BeforeToggle \/ pc[Handler] \in {"toggle_low", "spawn"}

TimersInFlight == sleeping + ready

UCount == Cardinality({i \in 1..Len(published) : published[i] = "U"})

ControlRequest(m) == m.topic = MQTTTopicControl /\ m.payload \in {"O", "C"}

C1_PulsesMatchAccepted ==
    /\ pulses + (IF BeforeToggle THEN 1 ELSE 0) = accepted
    /\ pinControl = High => pc[Handler] = "toggle_low"

C1_MovingMessageDropped ==
    (pc[Handler] = "dispatch" /\ movingStatus /\ pc'[Handler] # "dispatch")
        => (pc'[Handler] = "idle" /\ UNCHANGED <<pulses, pinControl, accepted>>)

\* C1: every accepted request (OpenDoor passing state == Closed, CloseDoor passing
\* state == Open) runs toggleDoor exactly once, nothing else drives the control
\* pin, and a control message dispatched while movingStatus is true is dropped
\* without a pulse.
C1_OnePulsePerAcceptedRequest ==
    [] C1_PulsesMatchAccepted /\ [][C1_MovingMessageDropped]_vars

C1_Witness ==
    /\ pulses >= 1
    /\ pc[Handler] = "dispatch"
    /\ ControlRequest(msg)
    /\ movingStatus

\* C3: "O" reaching OpenDoor's check while the state is Open, and "C" reaching
\* CloseDoor's check while the state is Closed, returns at once: state, flag,
\* status topic, actuator pin and timers are all left as they were.
C3_OutOfPreconditionRequestIsNoOp ==
    [][(/\ \/ pc[Handler] = "open_check" /\ currentDoorState = DoorOpen
           \/ pc[Handler] = "close_check" /\ currentDoorState = DoorClosed
        /\ pc'[Handler] # pc[Handler])
       => (/\ pc'[Handler] = "idle"
           /\ UNCHANGED <<currentDoorState, movingStatus, published, pulses,
                          pinControl, sleeping, ready, spawned, accepted>>)]_vars

C3_Witness ==
    /\ pc[Handler] = "open_check"
    /\ currentDoorState = DoorOpen
    /\ published # <<>>

\* C4: a message on another topic, or a control message whose payload is neither
\* "O" nor "C", is dropped by the handler in any controller state: it dispatches to
\* nothing and leaves state, flag, timers, pulse count and status topic unchanged.
C4_OtherMessagesIgnored ==
    [][(/\ pc[Handler] \in {"idle", "dispatch"}
        /\ pc'[Handler] # pc[Handler]
        /\ ~ControlRequest(IF pc[Handler] = "idle" THEN msg' ELSE msg))
       => (/\ pc'[Handler] \in {"idle", "dispatch"}
           /\ UNCHANGED <<currentDoorState, movingStatus, published, pulses,
                          pinControl, sleeping, ready, spawned, accepted>>)]_vars

C4_Witness ==
    /\ pc[Handler] = "dispatch"
    /\ ~ControlRequest(msg)
    /\ currentDoorState = DoorClosed
    /\ ~movingStatus
    /\ Constructed

\* C5: run alone, setState(v) called twice in succession publishes at most one
\* status message in all and leaves currentDoorState = v; a call with
\* v = currentDoorState (the second call always is one) returns at line 137,
\* before the write and the publish.
C5_SetStateIdempotent ==
    /\ pc[Test] = "done" => (Len(published) <= 1 /\ currentDoorState = testArg)
    /\ pc[Test] = "set_write" => currentDoorState # testArg
    /\ testCalls >= 1 => pc[Test] \in {"set_check", "returned", "done"}

C5_Witness ==
    /\ pc[Test] = "done"
    /\ testCalls = SetStateCalls
    /\ Len(published) = 1

\* C8: at most one timer goroutine is in flight (spawned, its send not yet
\* received), and each accepted request spawns exactly one timer.
C8_OneTimerInFlight ==
    /\ TimersInFlight <= 1
    /\ spawned + (IF BeforeSpawn THEN 1 ELSE 0) = accepted

C8_Witness ==
    /\ spawned = 2
    /\ TimersInFlight = 1

\* The initial sensor read of NewGarageController (line 117) has been written
\* to currentDoorState.
InitialReadApplied ==
    \/ Constructed
    \/ pc[Main] \in {"set_switch", "set_publish"} /\ ret[Main] = "run_if"

\* C10: currentDoorState is Unknown only until the initial sensor read is applied,
\* never afterwards, and readState never returns Unknown.
C10_UnknownOnlyBeforeFirstRead ==
    /\ InitialReadApplied => currentDoorState # DoorUnknown
    /\ pc[Main] = "set_check" => newState[Main] # DoorUnknown

C10_Witness ==
    /\ Constructed
    /\ pc[Main] = "set_check"
    /\ movingStatus
    /\ newState[Main] \in {DoorOpening, DoorClosing}

\* Timer signals the control loop has received.
Consumed == spawned - TimersInFlight

\* C2: from Closed and not moving, an "O" followed by a second "O" before the
\* first movement's signal is consumed gives exactly one pulse, exactly one "U"
\* publish and exactly one timer, whatever the control loop does meanwhile.
C2_SecondOpenIgnored ==
    (/\ delivered = 2
     /\ pc[Handler] = "idle"
     /\ ~InSetState(Main)
     /\ Consumed = 0)
        => (pulses = 1 /\ UCount = 1 /\ spawned = 1)

\* C6: once a completion signal is consumed, the next change of currentDoorState
\* is the control loop's setState, writing the state its sensor read returned.
C6_SettledBySensorRead ==
    [][(settling /\ currentDoorState' # currentDoorState)
       => (/\ pc[Main] = "set_write"
           /\ pc'[Main] = "set_switch"
           /\ currentDoorState' = newState[Main]
           /\ currentDoorState' \in {DoorOpen, DoorClosed})]_vars

\* C7: sensor Closed at start, one "O" once constructed, the door then reaching the
\* open position: when all has settled the status topic has seen exactly
\* "C", "U", "O" and the actuator exactly one pulse.
C7_EndToEndOpen ==
    (/\ delivered = 1
     /\ accepted = 1
     /\ pc[Handler] = "idle"
     /\ Consumed = 1
     /\ ~movingStatus
     /\ pinStatus = High
     /\ currentDoorState = DoorOpen
     /\ pc[Main] = "select")
        => (published = <<"C", "U", "O">> /\ pulses = 1)

\* C9: with no setState call in progress and the state known, currentDoorState
\* is the state of the last message on the status topic.
C9_StateMatchesLastPublish ==
    (/\ ~InSetState(Main)
     /\ ~InSetState(Handler)
     /\ currentDoorState # DoorUnknown)
        => (/\ published # <<>>
            /\ published[Len(published)] = StatusCode(currentDoorState))

MainWritesState ==
    /\ pc[Main] = "set_write"
    /\ ret[Main] = "select"
    /\ pc'[Main] # pc[Main]
    /\ currentDoorState' # currentDoorState

MainPublishes ==
    /\ pc[Main] = "set_publish"
    /\ ret[Main] = "select"
    /\ pc'[Main] # pc[Main]
    /\ published' # published

HandlerHasEntered ==
    pc[Handler] \in {"set_switch", "set_publish", "toggle_high", "toggle_low",
                     "spawn", "idle", "dispatch"}

C11_MovementStateHeld ==
    (movingStatus /\ HandlerHasEntered)
        => currentDoorState \in {DoorOpening, DoorClosing}

\* C11: while movingStatus is true the control loop neither writes
\* currentDoorState nor publishes a status, and from the handler's write of
\* Opening or Closing until the flag is cleared the state stays Opening or
\* Closing.
C11_LoopQuietWhileMoving ==
    /\ [] C11_MovementStateHeld
    /\ [][movingStatus => ~(MainWritesState \/ MainPublishes)]_vars

Transient == currentDoorState \in {DoorOpening, DoorClosing}

\* C12 as claimed: currentDoorState is Opening or Closing only while
\* movingStatus is true.
C12_TransientOnlyWhileMoving == Transient => movingStatus

\* C12: currentDoorState is Opening or Closing only while movingStatus is true,
\* or after the control loop has received the movement's completion signal and
\* has not changed currentDoorState since (the window up to its next sensor
\* read).
C12_TransientUntilNextRead == Transient => (movingStatus \/ settling)

C12_Witness ==
    /\ Transient
    /\ ~movingStatus
    /\ settling
    /\ pc[Main] \in {"rs_moving", "rs_pin", "set_check", "set_write"}

\* ---------------------------------------------------------------- fair scheduling
\* The Go scheduler keeps running every runnable goroutine: main (whose loop
\* sleeps 50 ms and comes back), the handler goroutine, and each timer
\* goroutine, whose Sleep returns after TravelDelay.
Fairness ==
    /\ WF_vars(MainSteps)
    /\ WF_vars(HandlerOpenSteps \/ HandlerCloseSteps)
    /\ WF_vars(TimerElapses)

\* The door travels while a movement's timer sleeps: the level at pinStatus
\* changes, at most once per movement.
DoorMoves ==
    /\ Alive
    /\ sleeping > 0
    /\ flips < spawned
    /\ pinStatus' = IF pinStatus = High THEN Low ELSE High
    /\ flips' = flips + 1
    /\ UNCHANGED <<pc, ret, newState, swState, currentDoorState, movingStatus, settling,
                   pinControl, sleeping, ready, published, presence, lastPublish, subscribed,
                   pulses, accepted, spawned, delivered, msg, testArg, testCalls>>

\* The process with any messages, the sensor following the door.
NextFair == Program \/ Deliver \/ DoorMoves

FairSpec == Init /\ [][NextFair]_vars /\ Fairness

Settled == currentDoorState \in {DoorOpen, DoorClosed}

\* An accepted request whose timer signal the loop has not yet received.
Pending == accepted > Consumed

C13_TimersOnlyAdvance ==
    /\ sleeping' < sleeping => (ready' = ready + 1 /\ sleeping' = sleeping - 1)
    /\ ready' < ready => (/\ pc[Main] = "select"
                          /\ pc'[Main] = "assign_moving"
                          /\ ready' = ready - 1
                          /\ sleeping' = sleeping)
    /\ (pc[Main] # "exited" /\ pc'[Main] = "exited") => accepted = 0

\* C13: with main, the handler and the timer goroutines scheduled fairly, an
\* accepted request leads to its timer's send having been received by the
\* control loop with movingStatus false, and that leads to currentDoorState
\* being Open or Closed; a timer, once spawned, only goes from sleeping to
\* sending to received, and the process does not exit after an acceptance.
C13_MovementCompletes ==
    /\ Pending ~> (~Pending /\ ~movingStatus)
    /\ (accepted > 0 /\ ~Pending /\ ~movingStatus) ~> Settled
    /\ [][C13_TimersOnlyAdvance]_vars

C13_Witness ==
    /\ accepted = 1
    /\ Consumed = 1
    /\ ~movingStatus
    /\ ~settling
    /\ Settled
    /\ pc[Handler] = "idle"

StartupSteps == {"rpio_open", "load_config", "connect", "presence", "subscribe"}

C14_StartupOrder ==
    /\ presence \in {<<>>, <<"GBP-ONLINE">>}
    /\ presence # <<>> => pc[Main] \notin {"rpio_open", "load_config", "connect", "presence"}
    /\ subscribed => (presence # <<>> /\ pc[Main] \notin StartupSteps)
    /\ (currentDoorState # DoorUnknown \/ published # <<>> \/ delivered > 0) => subscribed
    /\ Constructed => (currentDoorState # DoorUnknown /\ published # <<>>)

C14_NothingAfterFailure ==
    pc[Main] = "exited"
        => (/\ ~subscribed
            /\ published = <<>>
            /\ pulses = 0
            /\ pinControl = Low
            /\ currentDoorState = DoorUnknown
            /\ ~movingStatus
            /\ spawned = 0
            /\ delivered = 0)

C14_ExitOnlyAtStartup ==
    /\ (pc[Main] # "exited" /\ pc'[Main] = "exited") => pc[Main] \in StartupSteps
    /\ pc[Main] = "exited"
         => (/\ pc' = pc
             /\ UNCHANGED <<presence, subscribed, published, pulses, pinControl,
                            currentDoorState, movingStatus, spawned, delivered>>)

\* C14: startup runs pin interface, config, connect, presence publish,
\* subscribe, initial read with its status publish, then the loop, in that
\* order; a failure of a startup step ends the process there, with nothing
\* subscribed, no status published, no pulse and the loop never entered.
C14_StartupOrderAndFailure ==
    /\ [] (C14_StartupOrder /\ C14_NothingAfterFailure)
    /\ [][C14_ExitOnlyAtStartup]_vars

C14_Witness ==
    /\ pc[Main] = "exited"
    /\ presence = <<"GBP-ONLINE">>

CodeOf ==
    [s \in {DoorOpen, DoorClosed, DoorOpening, DoorClosing} |->
        CASE s = DoorOpen -> "O"
          [] s = DoorClosed -> "C"
          [] s = DoorOpening -> "U"
          [] s = DoorClosing -> "D"]

C15_StatusPublish(p) ==
    /\ pc[p] = "set_publish"
    /\ pc'[p] # pc[p]
    /\ lastPublish'.topic = MQTTTopicStatus
    /\ lastPublish'.retained
    /\ published' = Append(published, lastPublish'.payload)
    /\ newState[p] \in DOMAIN CodeOf
    /\ lastPublish'.payload = CodeOf[newState[p]]

\* C15: every publish on the status topic is made by a setState call, is
\* retained and carries the code of the state that call has just entered
\* ("O" Open, "C" Closed, "U" Opening, "D" Closing); nothing else reaches the
\* status topic and nothing is published for Unknown.
C15_PublishCarriesStateCode ==
    [][(published' # published \/ lastPublish' # lastPublish)
        => (\/ \E p \in Procs : C15_StatusPublish(p)
            \/ (lastPublish'.topic = MQTTTopicPresence /\ published' = published))]_vars

Unsettled == currentDoorState \in {DoorUnknown, DoorOpening, DoorClosing}

AtStateCheck == pc[Handler] \in {"open_check", "close_check"}

C18_DroppedWhenUnsettled ==
    (AtStateCheck /\ Unsettled /\ pc'[Handler] # pc[Handler])
        => (/\ pc'[Handler] = "idle"
            /\ msg' = NoMsg
            /\ UNCHANGED <<currentDoorState, movingStatus, published, lastPublish,
                           pulses, pinControl, sleeping, ready, spawned, accepted>>)

C18_NoRetry ==
    /\ (pc[Handler] = "idle" /\ pc'[Handler] # "idle") => delivered' = delivered + 1
    /\ accepted' # accepted => (AtStateCheck /\ ~Unsettled /\ accepted' = accepted + 1)

\* C18: a request reaching OpenDoor's or CloseDoor's state check while
\* currentDoorState is Unknown, Opening or Closing returns at once with no
\* pulse, timer, publish or state change; the message is gone, and the handler
\* acts again only on a newly delivered message.
C18_AcceptedOnlyWhenSettled ==
    [][C18_DroppedWhenUnsettled /\ C18_NoRetry]_vars

C18_Witness ==
    /\ AtStateCheck
    /\ Transient
    /\ ~movingStatus
    /\ settling
    /\ TimersInFlight = 0

C18_WitnessUnknown ==
    /\ AtStateCheck
    /\ currentDoorState = DoorUnknown
    /\ subscribed

\* C19: no two consecutive messages on the status topic carry the same code.
C19_NoRepeatedStatus ==
    \A i \in 1..(Len(published) - 1) : published[i] # published[i + 1]

\* An accepted OpenDoor/CloseDoor call has set movingStatus and has not yet
\* spawned its timer.
TimerToBeSpawned ==
    pc[Handler] \in {"set_check", "set_write", "set_switch", "set_publish",
                     "toggle_high", "toggle_low", "spawn"}

C20_FlagChanges ==
    /\ (~movingStatus /\ movingStatus')
           => (pc[Handler] \in {"open_moving", "close_moving"} /\ pc'[Handler] = "set_check")
    /\ (movingStatus /\ ~movingStatus')
           => (pc[Main] = "assign_moving" /\ pc'[Main] = "run_if")
    /\ (pc[Main] # "assign_moving" /\ pc'[Main] = "assign_moving")
           => (pc[Main] = "select" /\ ready' = ready - 1)

C20_FlagFollowsTimer ==
    /\ TimersInFlight > 0 => movingStatus
    /\ movingStatus => (TimersInFlight > 0 \/ TimerToBeSpawned)

\* C20 as claimed: the flag changes only at lines 165/180 and 203, a timer in
\* flight implies movingStatus, and movingStatus implies a timer in flight or
\* about to be spawned.
C20_MovingIffTimerPending == [] C20_FlagFollowsTimer /\ [][C20_FlagChanges]_vars

\* C20: movingStatus is set only by an accepted request (lines 165/180) and
\* cleared only by the loop after receiving a timer's signal (line 203); a
\* timer in flight implies movingStatus, and movingStatus implies a timer in
\* flight, or one about to be spawned by the call in progress, or a signal
\* received at line 202 whose assignment at line 203 is the loop's next step.
C20_MovingUntilSignalAssigned ==
    /\ [] (/\ TimersInFlight > 0 => movingStatus
           /\ movingStatus => (\/ TimersInFlight > 0
                               \/ TimerToBeSpawned
                               \/ pc[Main] = "assign_moving"))
    /\ [][C20_FlagChanges]_vars

C20_Witness ==
    /\ movingStatus
    /\ TimersInFlight = 0
    /\ pc[Main] = "assign_moving"
    /\ pc[Handler] = "idle"

\* ---------------------------------------------------------------- src/controller/main.go
\* The controller with the working flag and publishState. The field working
\* is held in movingStatus, the timers of workingChannel in sleeping and
\* ready; pinStatus is the pin readState reads and toggleDoor writes.

\* main lines 215-218 and NewGarageController lines 67-119, all succeeding:
\* config, rpio.Open, pin modes, the struct, Connect, presence, Subscribe
ConstructWorking ==
    /\ pc[Main] = "w_construct"
    /\ presence' = Append(presence, "GBP-ONLINE")
    /\ lastPublish' = [topic |-> MQTTTopicPresence, retained |-> FALSE,
                       payload |-> "GBP-ONLINE"]
    /\ subscribed' = TRUE
    /\ Goto(Main, "w_rs_working")
    /\ UNCHANGED <<ret, newState, swState, settling, currentDoorState, movingStatus,
                   pinStatus, pinControl, sleeping, ready, published, pulses,
                   accepted, spawned, delivered, flips, msg, testArg, testCalls>>

\* lines 68, 110, 114, 118 and main line 217: panic or Fatalf
ConstructWorkingFails ==
    /\ pc[Main] = "w_construct"
    /\ Goto(Main, "exited")
    /\ UNCHANGED <<ret, newState, swState, settling, currentDoorState, movingStatus, world>>

\* readState line 129: if controller.working
ReadStateIfWorking(self) ==
    /\ Alive
    /\ pc[self] = "w_rs_working"
    /\ Goto(self, IF movingStatus THEN "w_rs_cur" ELSE "w_rs_pin")
    /\ UNCHANGED <<ret, newState, swState, settling, currentDoorState, movingStatus, world>>

\* readState line 130: return controller.currentDoorState
ReadStateCurrentWorking(self) ==
    /\ Alive
    /\ pc[self] = "w_rs_cur"
    /\ newState' = [newState EXCEPT ![self] = currentDoorState]
    /\ Goto(self, IF self = Main THEN "w_ctor_write" ELSE "w_send")
    /\ UNCHANGED <<ret, swState, settling, currentDoorState, movingStatus, world>>

\* readState lines 132-136: rpio.ReadPin(pinStatus) == Low is Closed, else Open
ReadStatePinWorking(self) ==
    /\ Alive
    /\ pc[self] = "w_rs_pin"
    /\ newState' = [newState EXCEPT ![self] = SensorState(pinStatus)]
    /\ Goto(self, IF self = Main THEN "w_ctor_write" ELSE "w_send")
    /\ UNCHANGED <<ret, swState, settling, currentDoorState, movingStatus, world>>

\* line 121: controller.currentDoorState = controller.readState(), no publish
ConstructorStoresState ==
    /\ Alive
    /\ pc[Main] = "w_ctor_write"
    /\ currentDoorState' = newState[Main]
    /\ newState' = [newState EXCEPT ![Main] = DoorUnknown]
    /\ Goto(Main, "w_return")
    /\ UNCHANGED <<ret, swState, settling, movingStatus, world>>

\* line 124 (with the deferred rpio.Close of line 70) and Run lines 186-191:
\* the constructor returns, Run starts the polling goroutine and its loop
RunWorking ==
    /\ Alive
    /\ pc[Main] = "w_return"
    /\ pc' = [pc EXCEPT ![Main] = "w_select", ![Poller] = "w_sleep"]
    /\ UNCHANGED <<ret, newState, swState, settling, currentDoorState, movingStatus, world>>

\* line 70: rpio.Close has run once NewGarageController has returned
RpioClosed == pc[Poller] # "off"

\* Run line 188: the 500 ms sleep of the polling goroutine is over
PollerWakes ==
    /\ Alive
    /\ pc[Poller] = "w_sleep"
    /\ Goto(Poller, "w_rs_working")
    /\ UNCHANGED <<ret, newState, swState, settling, currentDoorState, movingStatus, world>>

\* Run lines 189 and 196: the poller's send meets the loop's receive
RunReceiveStatus ==
    /\ Alive
    /\ pc[Main] = "w_select"
    /\ pc[Poller] = "w_send"
    /\ newState' = [newState EXCEPT ![Main] = newState[Poller], ![Poller] = DoorUnknown]
    /\ pc' = [pc EXCEPT ![Main] = "w_status_compare", ![Poller] = "w_sleep"]
    /\ UNCHANGED <<ret, swState, settling, currentDoorState, movingStatus, world>>

\* Run line 197, left operand: newState != controller.currentDoorState
RunStatusCompare ==
    /\ Alive
    /\ pc[Main] = "w_status_compare"
    /\ IF newState[Main] # currentDoorState
       THEN Goto(Main, "w_status_working") /\ UNCHANGED newState
       ELSE /\ Goto(Main, "w_select")
            /\ newState' = [newState EXCEPT ![Main] = DoorUnknown]
    /\ UNCHANGED <<ret, swState, settling, currentDoorState, movingStatus, world>>

\* Run line 197, right operand: !controller.working
RunStatusIfNotWorking ==
    /\ Alive
    /\ pc[Main] = "w_status_working"
    /\ IF ~movingStatus
       THEN Goto(Main, "w_status_write") /\ UNCHANGED newState
       ELSE /\ Goto(Main, "w_select")
            /\ newState' = [newState EXCEPT ![Main] = DoorUnknown]
    /\ UNCHANGED <<ret, swState, settling, currentDoorState, movingStatus, world>>

\* Run line 199: controller.currentDoorState = newState
RunStatusWrite ==
    /\ Alive
    /\ pc[Main] = "w_status_write"
    /\ currentDoorState' = newState[Main]
    /\ newState' = [newState EXCEPT ![Main] = DoorUnknown]
    /\ Goto(Main, "w_publish_switch")
    /\ UNCHANGED <<ret, swState, settling, movingStatus, world>>

\* publishState line 140: switch controller.currentDoorState
PublishStateSwitch ==
    /\ Alive
    /\ pc[Main] = "w_publish_switch"
    /\ swState' = [swState EXCEPT ![Main] = currentDoorState]
    /\ Goto(Main, "w_publish")
    /\ UNCHANGED <<ret, newState, settling, currentDoorState, movingStatus, world>>

\* publishState lines 141-149: client.Publish(status topic, 0, true, code)
PublishState ==
    /\ Alive
    /\ pc[Main] = "w_publish"
    /\ IF HasStatusCode(swState[Main])
       THEN /\ published' = Append(published, StatusCode(swState[Main]))
            /\ lastPublish' = StatusMessage(swState[Main])
       ELSE UNCHANGED <<published, lastPublish>>
    /\ swState' = [swState EXCEPT ![Main] = DoorUnknown]
    /\ Goto(Main, "w_select")
    /\ UNCHANGED <<ret, newState, settling, currentDoorState, movingStatus,
                   pinStatus, pinControl, sleeping, ready, presence, subscribed,
                   pulses, accepted, spawned, delivered, flips, msg, testArg, testCalls>>

\* Run line 202: a timer goroutine is blocked in its send; receive from it
RunReceiveWorking ==
    /\ Alive
    /\ pc[Main] = "w_select"
    /\ ready > 0
    /\ ready' = ready - 1
    /\ Goto(Main, "w_assign_working")
    /\ UNCHANGED <<ret, newState, swState, settling, currentDoorState, movingStatus,
                   pinStatus, pinControl, sleeping, published, presence, lastPublish,
                   subscribed, pulses, accepted, spawned, delivered, flips, msg,
                   testArg, testCalls>>

\* Run line 203: controller.working = newWorking, which is false
RunAssignWorking ==
    /\ Alive
    /\ pc[Main] = "w_assign_working"
    /\ movingStatus' = FALSE
    /\ Goto(Main, "w_select")
    /\ UNCHANGED <<ret, newState, swState, settling, currentDoorState, world>>

\* lines 98-105: the topic and working test, and the switch on the payload
HandlerDispatchWorking(topic, payload, working) ==
    IF topic = MQTTTopicControl /\ ~working
    THEN CASE payload = "O" -> "w_open_working"
           [] payload = "C" -> "w_close_working"
           [] OTHER -> "idle"
    ELSE "idle"

\* The router goroutine calls the handler with the next inbound message.
DeliverWorking ==
    /\ Alive
    /\ subscribed
    /\ pc[Handler] = "idle"
    /\ delivered < MaxMessages
    /\ \E topic \in Topics, payload \in Payloads :
          msg' = [topic |-> topic, payload |-> payload]
    /\ delivered' = delivered + 1
    /\ Goto(Handler, "w_dispatch")
    /\ UNCHANGED <<ret, newState, swState, settling, currentDoorState, movingStatus,
                   pinStatus, pinControl, sleeping, ready, published, presence,
                   lastPublish, subscribed, pulses, accepted, spawned, flips,
                   testArg, testCalls>>

DispatchWorking ==
    /\ Alive
    /\ pc[Handler] = "w_dispatch"
    /\ Goto(Handler, HandlerDispatchWorking(msg.topic, msg.payload, movingStatus))
    /\ msg' = NoMsg
    /\ UNCHANGED <<ret, newState, swState, settling, currentDoorState, movingStatus,
                   pinStatus, pinControl, sleeping, ready, published, presence,
                   lastPublish, subscribed, pulses, accepted, spawned, delivered,
                   flips, testArg, testCalls>>

\* OpenDoor line 162 / CloseDoor line 174: controller.working = true, with no
\* test of currentDoorState before it
DoorSetWorking ==
    /\ Alive
    /\ pc[Handler] \in {"w_open_working", "w_close_working"}
    /\ movingStatus' = TRUE
    /\ accepted' = accepted + 1
    /\ Goto(Handler, IF pc[Handler] = "w_open_working" THEN "w_open_state"
                                                        ELSE "w_close_state")
    /\ UNCHANGED <<ret, newState, swState, settling, currentDoorState,
                   pinStatus, pinControl, sleeping, ready, published, presence,
                   lastPublish, subscribed, pulses, spawned, delivered, flips, msg,
                   testArg, testCalls>>

\* OpenDoor line 163 / CloseDoor line 175: the state is assigned, not published
DoorSetState ==
    /\ Alive
    /\ pc[Handler] \in {"w_open_state", "w_close_state"}
    /\ currentDoorState' = IF pc[Handler] = "w_open_state" THEN DoorOpening
                                                          ELSE DoorClosing
    /\ Goto(Handler, "w_toggle_high")
    /\ UNCHANGED <<ret, newState, swState, settling, movingStatus, world>>

\* toggleDoor line 154: rpio.WritePin(pinStatus, High)
ToggleDoorHighWorking ==
    /\ Alive
    /\ pc[Handler] = "w_toggle_high"
    /\ pinStatus' = High
    /\ pulses' = pulses + 1
    /\ Goto(Handler, "w_toggle_low")
    /\ UNCHANGED <<ret, newState, swState, settling, currentDoorState, movingStatus,
                   pinControl, sleeping, ready, published, presence, lastPublish,
                   subscribed, accepted, spawned, delivered, flips, msg,
                   testArg, testCalls>>

\* toggleDoor lines 155-156: sleep 250 ms, rpio.WritePin(pinStatus, Low)
ToggleDoorLowWorking ==
    /\ Alive
    /\ pc[Handler] = "w_toggle_low"
    /\ pinStatus' = Low
    /\ Goto(Handler, "w_spawn")
    /\ UNCHANGED <<ret, newState, swState, settling, currentDoorState, movingStatus,
                   pinControl, sleeping, ready, published, presence, lastPublish,
                   subscribed, pulses, accepted, spawned, delivered, flips, msg,
                   testArg, testCalls>>

\* OpenDoor lines 165-168 / CloseDoor lines 177-180: go func ... ch <- false
SpawnTimerWorking ==
    /\ Alive
    /\ pc[Handler] = "w_spawn"
    /\ sleeping' = sleeping + 1
    /\ spawned' = spawned + 1
    /\ Goto(Handler, "idle")
    /\ UNCHANGED <<ret, newState, swState, settling, currentDoorState, movingStatus,
                   pinStatus, pinControl, ready, published, presence, lastPublish,
                   subscribed, pulses, accepted, delivered, flips, msg,
                   testArg, testCalls>>

\* A pin access after the deferred rpio.Close of line 70 touches memory the
\* library has unmapped: it may go through, as in the steps above, or end the
\* process.
PinAccessFaults ==
    /\ Alive
    /\ RpioClosed
    /\ \/ pc[Poller] = "w_rs_pin"
       \/ pc[Handler] \in {"w_toggle_high", "w_toggle_low"}
    /\ Goto(Main, "exited")
    /\ UNCHANGED <<ret, newState, swState, settling, currentDoorState, movingStatus, world>>

\* lines 79-88: the struct as constructed, currentDoorState Closed and working
\* false; main is about to load the configuration
InitWorking ==
    /\ pc = [p \in Procs |-> CASE p = Main -> "w_construct"
                               [] p = Handler -> "idle"
                               [] OTHER -> "off"]
    /\ ret = [p \in Procs |-> "none"]
    /\ newState = [p \in Procs |-> DoorUnknown]
    /\ swState = [p \in Procs |-> DoorUnknown]
    /\ currentDoorState = DoorClosed
    /\ movingStatus = FALSE
    /\ pinStatus \in {Low, High}
    /\ pinControl = Low
    /\ sleeping = 0
    /\ ready = 0
    /\ published = <<>>
    /\ presence = <<>>
    /\ lastPublish = NoPublish
    /\ subscribed = FALSE
    /\ pulses = 0
    /\ accepted = 0
    /\ spawned = 0
    /\ delivered = 0
    /\ flips = 0
    /\ msg = NoMsg
    /\ settling = FALSE
    /\ testArg = DoorUnknown
    /\ testCalls = 0

MainStepsWorking ==
    \/ ConstructWorking \/ ConstructWorkingFails
    \/ ReadStateIfWorking(Main) \/ ReadStateCurrentWorking(Main) \/ ReadStatePinWorking(Main)
    \/ ConstructorStoresState \/ RunWorking
    \/ RunReceiveStatus \/ RunStatusCompare \/ RunStatusIfNotWorking \/ RunStatusWrite
    \/ PublishStateSwitch \/ PublishState
    \/ RunReceiveWorking \/ RunAssignWorking

PollerSteps ==
    \/ PollerWakes
    \/ ReadStateIfWorking(Poller) \/ ReadStateCurrentWorking(Poller)
    \/ ReadStatePinWorking(Poller)

HandlerStepsWorking ==
    \/ DispatchWorking \/ DoorSetWorking \/ DoorSetState
    \/ ToggleDoorHighWorking \/ ToggleDoorLowWorking \/ SpawnTimerWorking

NextWorking ==
    \/ MainStepsWorking \/ PollerSteps \/ HandlerStepsWorking
    \/ TimerElapses \/ PinAccessFaults
    \/ DeliverWorking \/ SensorFlip

SpecWorking == InitWorking /\ [][NextWorking]_vars

\* C16: OpenDoor entered with the state not Closed, and CloseDoor entered with
\* the state not Open, returns at once: no state change, no flag, no pulse, no
\* timer; the state becomes Opening only from Closed and Closing only from Open.
C16_RequestNeedsPrecondition ==
    [][/\ (/\ \/ pc[Handler] = "w_open_working" /\ currentDoorState # DoorClosed
              \/ pc[Handler] = "w_close_working" /\ currentDoorState # DoorOpen
           /\ pc'[Handler] # pc[Handler])
          => (/\ pc'[Handler] = "idle"
              /\ UNCHANGED <<currentDoorState, movingStatus, pulses, sleeping,
                             ready, spawned>>)
       /\ (currentDoorState' = DoorOpening /\ currentDoorState # DoorOpening)
          => currentDoorState = DoorClosed
       /\ (currentDoorState' = DoorClosing /\ currentDoorState # DoorClosing)
          => currentDoorState = DoorOpen]_vars

InPublishState == pc[Main] \in {"w_publish_switch", "w_publish"}

\* C17: every assignment to currentDoorState is followed by publishState in the
\* same goroutine, and once the constructor has returned, with no publishState
\* pending, the last status published is the code of currentDoorState.
C17_EveryChangePublished ==
    /\ [] ((RpioClosed /\ ~InPublishState)
              => (/\ published # <<>>
                  /\ published[Len(published)] = StatusCode(currentDoorState)))
    /\ [][currentDoorState' # currentDoorState
            => (pc[Main] = "w_status_write" /\ pc'[Main] = "w_publish_switch")]_vars

====
